---------------------------- MODULE Spec2Model ----------------------------
(***************************************************************************)
(* AdaptiveKalmanFilter (trackers/strong_sort/sort/adaptive_kalman_filter) *)
(* as a state machine.  Every filter instance owns its process noise Q,    *)
(* measurement noise R, residual and image extent; the caller holds the    *)
(* (mean, covariance) pair of the track it filters with that instance and  *)
(* passes it back into predict / update / gating_distance.                 *)
(*                                                                         *)
(* Numbers.  The code computes in float64.  Here a real number is a binary *)
(* fixed-point number: the integer v stands for v / One, and every product *)
(* and quotient is rounded toward zero to that grid, as a float operation  *)
(* rounds to its own grid.  Sums and differences are exact.                *)
(***************************************************************************)
EXTENDS Integers, Sequences, FiniteSets

-----------------------------------------------------------------------------
(* Fixed-point arithmetic *)

\* One unit: 2^16.  Base is its square root, used to split the factors of a
\* product so that no partial product leaves the 32-bit integers.
Base == 16 * 16
One == Base * Base

Abs(a) == IF a < 0 THEN -a ELSE a

\* The literal n/d of the source, e.g. 1. / 20 or 0.9.
Real(n, d) == (n * One) \div d

\* The largest value of the 32-bit integers the numbers live in.
MaxInt == (64 * Base * Base * Base - 1) * 2 + 1

\* |a * b| / One for a, b > 0, rounded down.  When the product itself fits
\* it is divided directly; otherwise it is assembled from partial products
\* of the factors' halves, which gives the same rounded-down value.
MulMag(a, b) ==
    IF a <= MaxInt \div b THEN (a * b) \div One
    ELSE LET a1 == a \div Base  a0 == a % Base
             b1 == b \div Base  b0 == b % Base
             m1 == a1 * b0
             m2 == a0 * b1
             lo == (a0 * b0) \div Base
         IN  a1 * b1 + (m1 \div Base) + (m2 \div Base)
               + (((m1 % Base) + (m2 % Base) + lo) \div Base)

FxMul(a, b) ==
    IF a = 0 \/ b = 0 THEN 0
    ELSE IF b = One THEN a
    ELSE IF a = One THEN b
    ELSE IF (a < 0) = (b < 0) THEN MulMag(Abs(a), Abs(b))
    ELSE -MulMag(Abs(a), Abs(b))

\* The fraction bits of r / b (0 <= r < b), one binary digit per step.
RECURSIVE FracBits(_, _, _, _)
FracBits(r, b, n, acc) ==
    IF n = 0 THEN acc
    ELSE IF 2 * r >= b THEN FracBits(2 * r - b, b, n - 1, 2 * acc + 1)
         ELSE FracBits(2 * r, b, n - 1, 2 * acc)

\* a / b for b # 0, rounded toward zero.
FxDiv(a, b) ==
    IF a = 0 THEN 0
    ELSE LET x == Abs(a)  y == Abs(b)
             q == (x \div y) * One + FracBits(x % y, y, 16, 0)
         IN  IF (a < 0) = (b < 0) THEN q ELSE -q

\* The largest y with y * y <= v (np.sqrt), found bit by bit.
RECURSIVE SqrtBits(_, _, _)
SqrtBits(v, y, bit) ==
    IF bit = 0 THEN y
    ELSE IF MulMag(y + bit, y + bit) <= v THEN SqrtBits(v, y + bit, bit \div 2)
         ELSE SqrtBits(v, y, bit \div 2)

FxSqrt(v) == SqrtBits(v, 0, 4 * One)

\* np.square
Square(a) == FxMul(a, a)

-----------------------------------------------------------------------------
(* Vectors and matrices (numpy arrays): a matrix is a tuple of rows *)

\* A function over 1..n as a tuple (numpy arrays hold their values).
Vec(f) == f \o << >>

Rows(A) == Len(A)
Cols(A) == Len(A[1])

RECURSIVE SumTo(_, _)
SumTo(f, n) == IF n = 0 THEN 0 ELSE f[n] + SumTo(f, n - 1)

\* np.dot of two vectors
RECURSIVE DotTo(_, _, _)
DotTo(u, v, n) == IF n = 0 THEN 0 ELSE FxMul(u[n], v[n]) + DotTo(u, v, n - 1)

Dot(u, v) == DotTo(u, v, Len(u))

Transpose(A) == Vec([j \in 1..Cols(A) |-> Vec([i \in 1..Rows(A) |-> A[i][j]])])

\* A B^T: entry (i, j) is the dot product of row i of A and row j of B.
MatMulT(A, Bt) ==
    Vec([i \in 1..Rows(A) |-> Vec([j \in 1..Rows(Bt) |-> Dot(A[i], Bt[j])])])

\* np.dot of two matrices
MatMul(A, B) == MatMulT(A, Transpose(B))

\* np.dot(matrix, vector)
MatVec(A, v) == Vec([i \in 1..Rows(A) |-> Dot(A[i], v)])

\* np.linalg.multi_dot((A, B, C)).  For the shapes used here numpy's cost
\* rule finds both orders equally cheap and then evaluates A (B C).
MultiDot(A, B, C) == MatMul(A, MatMul(B, C))

MatAdd(A, B) ==
    Vec([i \in 1..Rows(A) |-> Vec([j \in 1..Cols(A) |-> A[i][j] + B[i][j]])])
MatSub(A, B) ==
    Vec([i \in 1..Rows(A) |-> Vec([j \in 1..Cols(A) |-> A[i][j] - B[i][j]])])
Scale(c, A) ==
    Vec([i \in 1..Rows(A) |-> Vec([j \in 1..Cols(A) |-> FxMul(c, A[i][j])])])
VecAdd(u, v) == Vec([i \in 1..Len(u) |-> u[i] + v[i]])
VecSub(u, v) == Vec([i \in 1..Len(u) |-> u[i] - v[i]])

\* np.eye(n, m), np.zeros, np.diag, np.outer
Eye(n, m) == Vec([i \in 1..n |-> Vec([j \in 1..m |-> IF i = j THEN One ELSE 0])])
Zeros(n, m) == Vec([i \in 1..n |-> Vec([j \in 1..m |-> 0])])
ZeroVec(n) == Vec([i \in 1..n |-> 0])
Diag(v) ==
    Vec([i \in 1..Len(v) |-> Vec([j \in 1..Len(v) |-> IF i = j THEN v[i] ELSE 0])])
Outer(u, v) ==
    Vec([i \in 1..Len(u) |-> Vec([j \in 1..Len(v) |-> FxMul(u[i], v[j])])])

\* A[:n, :n] and v[:n]
Leading(A, n) == Vec([i \in 1..n |-> Vec([j \in 1..n |-> A[i][j]])])
Head2(v, n) == Vec([i \in 1..n |-> v[i]])

-----------------------------------------------------------------------------
(* Cholesky factorisation and the solves built on it (scipy.linalg.cho_factor,
   cho_solve, np.linalg.cholesky, scipy.linalg.solve_triangular).

   The factor is kept in square-root-free form: S = L D L^T with L unit lower
   triangular and pivots D.  The library's factor is C = L sqrt(D), so its
   j-th diagonal entry is sqrt(D[j]) and the factorisation fails (LinAlgError)
   exactly when a pivot is not positive.  Only the lower triangle of S is
   read, as with lower=True. *)

\* The sum over k < j of L[i][k] L[j][k] D[k], with ri and rj rows i, j of L.
RECURSIVE PivotSum(_, _, _, _)
PivotSum(ri, rj, D, k) ==
    IF k = 0 THEN 0
    ELSE FxMul(FxMul(ri[k], rj[k]), D[k]) + PivotSum(ri, rj, D, k - 1)

\* Row i of L below the diagonal, left to right; row holds L[i][1..j-1].
RECURSIVE CholRow(_, _, _, _, _)
CholRow(S, L, D, i, row) ==
    IF Len(row) + 1 = i THEN row
    ELSE CholRow(S, L, D, i,
           Append(row,
                  FxDiv(S[i][Len(row) + 1]
                          - PivotSum(row, L[Len(row) + 1], D, Len(row)),
                        D[Len(row) + 1])))

\* The pivot of row i: S[i][i] less the sum over k < i of L[i][k]^2 D[k].
CholPivot(S, D, i, row) == S[i][i] - PivotSum(row, row, D, i - 1)

RECURSIVE CholSteps(_, _, _)
\* One row: stop with ok = FALSE at the first pivot that is not positive.
CholAdd(S, L, D, row, d) ==
    IF d <= 0 THEN [ok |-> FALSE, L |-> L, D |-> D]
    ELSE CholSteps(S, Append(L, row), Append(D, d))

CholNext(S, L, D, row) == CholAdd(S, L, D, row, CholPivot(S, D, Len(D) + 1, row))

CholSteps(S, L, D) ==
    IF Len(D) + 1 > Rows(S) THEN [ok |-> TRUE, L |-> L, D |-> D]
    ELSE CholNext(S, L, D, CholRow(S, L, D, Len(D) + 1, << >>))

\* cho_factor(S, lower=True) / np.linalg.cholesky(S)
CholFactor(S) == CholSteps(S, << >>, << >>)

\* The sum over k <= n of L[i][k] y[k].
RECURSIVE RowSum(_, _, _)
RowSum(ri, y, n) ==
    IF n = 0 THEN 0 ELSE FxMul(ri[n], y[n]) + RowSum(ri, y, n - 1)

\* Forward substitution with the unit factor: y with L y = b.
RECURSIVE ForwardSub(_, _, _)
ForwardSub(L, b, y) ==
    IF Len(y) = Len(b) THEN y
    ELSE ForwardSub(L, b,
           Append(y, b[Len(y) + 1] - RowSum(L[Len(y) + 1], y, Len(y))))

\* The sum over k <= n of L[i+k][i] xs[k].
RECURSIVE ColSum(_, _, _, _)
ColSum(L, i, xs, n) ==
    IF n = 0 THEN 0 ELSE FxMul(L[i + n][i], xs[n]) + ColSum(L, i, xs, n - 1)

\* Back substitution: x with L^T x = z; xs holds x[i+1..n].
RECURSIVE BackSub(_, _, _)
BackSub(L, z, xs) ==
    IF Len(xs) = Len(z) THEN xs
    ELSE BackSub(L, z,
           << z[Len(z) - Len(xs)]
                - ColSum(L, Len(z) - Len(xs), xs, Len(xs)) >> \o xs)

\* y[i] / D[i] for every i.
DivAll(y, D) == Vec([i \in 1..Len(y) |-> FxDiv(y[i], D[i])])

\* cho_solve((C, lower), b) for one right-hand side b: x with S x = b.
ChoSolveVec(F, b) == BackSub(F.L, DivAll(ForwardSub(F.L, b, << >>), F.D), << >>)

\* cho_solve((C, lower), B) for B given by its columns Bt = B^T: the
\* solution's columns.
ChoSolveT(F, Bt) == Vec([j \in 1..Rows(Bt) |-> ChoSolveVec(F, Bt[j])])

\* cho_solve((C, lower), B): column by column; the result has B's shape.
ChoSolve(F, B) == Transpose(ChoSolveT(F, Transpose(B)))

\* The sum over i <= n of y[i]^2 / D[i].
RECURSIVE MahaSum(_, _, _)
MahaSum(y, D, n) ==
    IF n = 0 THEN 0 ELSE FxDiv(Square(y[n]), D[n]) + MahaSum(y, D, n - 1)

\* solve_triangular(C, d, lower=True) followed by np.sum(z * z): with
\* z[i] = y[i] / sqrt(D[i]) the square z[i]^2 is y[i]^2 / D[i].
SquaredMaha(F, d) == MahaSum(ForwardSub(F.L, d, << >>), F.D, Len(d))

-----------------------------------------------------------------------------
(* AdaptiveKalmanFilter.__init__ *)

ndim == 4
dt == One

I8 == Eye(2 * ndim, 2 * ndim)

motion_mat ==
    Vec([i \in 1..(2 * ndim) |-> Vec([j \in 1..(2 * ndim) |->
        IF i = j THEN One ELSE IF i <= ndim /\ j = ndim + i THEN dt ELSE 0])])

update_mat == Eye(ndim, 2 * ndim)

std_weight_position == Real(1, 20)
std_weight_velocity == Real(1, 160)
forgetting_factor == Real(9, 10)

InitProcessNoise == Zeros(8, 8)
InitMeasurementNoise == Zeros(4, 4)
InitResidual == ZeroVec(4)
InitImageSize == 0

-----------------------------------------------------------------------------
(* The operations as functions of the instance state and the arguments *)

\* distance_to_image_center(bbox)
distance_to_image_center(width, height, bbox) ==
    FxSqrt(Square(FxDiv(width, Real(2, 1)) - bbox[1])
           + Square(FxDiv(height, Real(2, 1)) - bbox[2]))

\* The std list of initiate.
InitiateStd(dist, measurement) ==
    << FxMul(FxMul(Real(2, 1), std_weight_position), dist),
       FxMul(FxMul(Real(2, 1), std_weight_position), dist),
       FxMul(Real(1, 1), measurement[3]),
       FxMul(FxMul(Real(2, 1), std_weight_position), measurement[4]),
       FxMul(FxMul(Real(10, 1), std_weight_velocity), dist),
       FxMul(FxMul(Real(10, 1), std_weight_velocity), dist),
       FxMul(Real(1, 10), measurement[3]),
       FxMul(FxMul(Real(10, 1), std_weight_velocity), measurement[4]) >>

SquareAll(std) == Vec([i \in 1..Len(std) |-> Square(std[i])])

\* initiate(measurement) -> (mean, covariance)
initiate(width, height, measurement) ==
    [mean |-> measurement \o ZeroVec(4),
     covariance |->
         Diag(SquareAll(InitiateStd(
             distance_to_image_center(width, height, measurement),
             measurement)))]

\* Faulty variant of predict: the covariance is inflated additively, without
\* the motion model F P F^T.
PredictAdditive(Q, mean, covariance) ==
    [mean |-> MatVec(motion_mat, mean), covariance |-> MatAdd(covariance, Q)]

\* predict(mean, covariance) -> (mean, covariance), reading Q
predict(Q, mean, covariance) ==
    [mean |-> MatVec(motion_mat, mean),
     covariance |-> MatAdd(MultiDot(motion_mat, covariance,
                                    Transpose(motion_mat)), Q)]

\* The std list of project before it is scaled.
ProjectBaseStd(mean) ==
    << FxMul(std_weight_position, mean[4]),
       FxMul(std_weight_position, mean[4]),
       Real(1, 10),
       FxMul(std_weight_position, mean[4]) >>

\* std = [(1 - confidence) * x for x in std]
ScaleStd(std, confidence) ==
    Vec([i \in 1..Len(std) |-> FxMul(One - confidence, std[i])])

ProjectStd(mean, confidence) == ScaleStd(ProjectBaseStd(mean), confidence)

\* The adapted measurement noise project assigns to the instance; res is
\* the residual the instance holds when project runs.
AdaptMeasurementNoise(R, res, projected_cov, additive) ==
    MatAdd(Scale(forgetting_factor, MatAdd(R, additive)),
           Scale(One - forgetting_factor,
                 MatAdd(Outer(res, res), projected_cov)))

\* The pair project returns and the R it has assigned.
Projected(projected_mean, projected_cov, newR) ==
    [mean |-> projected_mean,
     covariance |-> MatAdd(projected_cov, newR),
     measurement_noise |-> newR]

ProjectWith(R, res, mean, confidence, projected_cov) ==
    Projected(MatVec(update_mat, mean), projected_cov,
              AdaptMeasurementNoise(R, res, projected_cov,
                  Diag(SquareAll(ProjectStd(mean, confidence)))))

\* Faulty variant of project: the adaptation starts from a zero residual
\* instead of the one the last update stored.
ProjectFresh(R, res, mean, covariance, confidence) ==
    ProjectWith(R, InitResidual, mean, confidence,
                MultiDot(update_mat, covariance, Transpose(update_mat)))

\* project(mean, covariance, confidence)
project(R, res, mean, covariance, confidence) ==
    ProjectWith(R, res, mean, confidence,
                MultiDot(update_mat, covariance, Transpose(update_mat)))

\* Faulty variant of update's std lists: initiate's factors 2 and 10 kept.
MirroredStd(dist, mean) == InitiateStd(dist, mean)

\* The std_pos and std_vel lists of update, joined (np.r_).
UpdateStd(dist, mean) ==
    << FxMul(std_weight_position, dist),
       FxMul(std_weight_position, dist),
       FxMul(Real(1, 1), mean[3]),
       FxMul(std_weight_position, mean[4]),
       FxMul(std_weight_velocity, dist),
       FxMul(std_weight_velocity, dist),
       FxMul(Real(1, 10), mean[3]),
       FxMul(std_weight_velocity, mean[4]) >>

\* additive_process_noise of update
AdditiveProcessNoise(width, height, mean) ==
    Diag(SquareAll(UpdateStd(distance_to_image_center(width, height, mean),
                             mean)))

\* The adapted process noise update assigns to the instance.
AdaptProcessNoise(Q, additive, est_process_noise) ==
    MatAdd(Scale(forgetting_factor, MatAdd(Q, additive)),
           Scale(One - forgetting_factor, est_process_noise))

\* kalman_gain = cho_solve(cho_factor(projected_cov), (P H^T)^T)^T
KalmanGain(F, covariance) ==
    Transpose(ChoSolve(F, Transpose(MatMul(covariance, Transpose(update_mat)))))

\* est_process_noise = K (innovation outer innovation) K^T
EstProcessNoise(kalman_gain, innovation) ==
    MultiDot(kalman_gain, Outer(innovation, innovation), Transpose(kalman_gain))

\* Faulty variant of the Joseph form: the gain term K R K^T subtracted.
JosephFormMinus(I_KH, covariance, kalman_gain, R) ==
    MatSub(MultiDot(I_KH, covariance, Transpose(I_KH)),
           MultiDot(kalman_gain, R, Transpose(kalman_gain)))

\* The Joseph-form covariance of update; R is the instance's measurement
\* noise at that point, i.e. the one project has just adapted.
JosephForm(I_KH, covariance, kalman_gain, R) ==
    MatAdd(MultiDot(I_KH, covariance, Transpose(I_KH)),
           MultiDot(kalman_gain, R, Transpose(kalman_gain)))

NewCovariance(covariance, kalman_gain, R) ==
    JosephForm(MatSub(I8, MatMul(kalman_gain, update_mat)), covariance,
               kalman_gain, R)

\* The residual update stores last: measurement - H new_mean.
NewResidual(measurement, new_mean) ==
    VecSub(measurement, MatVec(update_mat, new_mean))

\* What update leaves behind when cho_factor raises: project has already
\* assigned R; the exception leaves the method before Q and the residual are
\* assigned and before anything is returned.
UpdateRaises(Q, newR, res) ==
    [ok |-> FALSE, mean |-> << >>, covariance |-> << >>,
     process_noise |-> Q, measurement_noise |-> newR, residual |-> res]

\* What update returns and leaves behind when it runs to its end.
UpdateReturns(new_mean, new_covariance, newQ, newR, measurement) ==
    [ok |-> TRUE, mean |-> new_mean, covariance |-> new_covariance,
     process_noise |-> newQ, measurement_noise |-> newR,
     residual |-> NewResidual(measurement, new_mean)]

\* The second half of update, from the Kalman gain on.
UpdateWithGain(width, height, Q, newR, mean, covariance, measurement, innovation, kalman_gain) ==
    UpdateReturns(VecAdd(mean, MatVec(kalman_gain, innovation)),
                  NewCovariance(covariance, kalman_gain, newR),
                  AdaptProcessNoise(Q, AdditiveProcessNoise(width, height, mean),
                                    EstProcessNoise(kalman_gain, innovation)),
                  newR, measurement)

\* Faulty variant: a failed factorization is swallowed and the old pair
\* returned as if update had succeeded.
UpdateRecovers(width, height, Q, res, mean, covariance, measurement, p, F) ==
    IF ~F.ok
    THEN [ok |-> TRUE, mean |-> mean, covariance |-> covariance,
          process_noise |-> Q, measurement_noise |-> p.measurement_noise,
          residual |-> res]
    ELSE UpdateWithGain(width, height, Q, p.measurement_noise, mean,
                        covariance, measurement,
                        VecSub(measurement, p.mean),
                        KalmanGain(F, covariance))

UpdateWithFactor(width, height, Q, res, mean, covariance, measurement, p, F) ==
    IF ~F.ok THEN UpdateRaises(Q, p.measurement_noise, res)
    ELSE UpdateWithGain(width, height, Q, p.measurement_noise, mean,
                        covariance, measurement,
                        VecSub(measurement, p.mean),
                        KalmanGain(F, covariance))

UpdateWithProjection(width, height, Q, res, mean, covariance, measurement, p) ==
    UpdateWithFactor(width, height, Q, res, mean, covariance, measurement, p,
                     CholFactor(p.covariance))

\* Faulty variant of update: a failed call restores the R it started with.
RolledBack(R, r) == IF r.ok THEN r ELSE [r EXCEPT !.measurement_noise = R]

UpdateRollsBack(width, height, Q, R, res, mean, covariance, measurement, confidence) ==
    RolledBack(R, UpdateWithProjection(width, height, Q, res, mean, covariance,
                   measurement, project(R, res, mean, covariance, confidence)))

\* update(mean, covariance, measurement, confidence): the returned pair and
\* the instance state it leaves.
update(width, height, Q, R, res, mean, covariance, measurement, confidence) ==
    UpdateWithProjection(width, height, Q, res, mean, covariance, measurement,
                         project(R, res, mean, covariance, confidence))

\* Faulty variant of the component count: only_position ignored.
AllDims(only_position) == ndim

\* The number of leading components gating_distance keeps.
GatingDims(only_position) == IF only_position THEN 2 ELSE ndim

\* squared_maha for the batch, or the LinAlgError of np.linalg.cholesky.
GatingWithFactor(newR, projected_mean, measurements, n, F) ==
    IF ~F.ok
    THEN [ok |-> FALSE, distances |-> << >>, measurement_noise |-> newR]
    ELSE [ok |-> TRUE,
          distances |->
              Vec([m \in 1..Len(measurements) |->
                     SquaredMaha(F, VecSub(Head2(measurements[m], n),
                                           projected_mean))]),
          measurement_noise |-> newR]

GatingWithProjection(measurements, n, p) ==
    GatingWithFactor(p.measurement_noise, Head2(p.mean, n), measurements, n,
                     CholFactor(Leading(p.covariance, n)))

\* Faulty variant of gating_distance: a read-only projection, R kept.
GatingReadOnly(R, res, mean, covariance, measurements, only_position) ==
    [GatingWithProjection(measurements, GatingDims(only_position),
                          project(R, res, mean, covariance, 0))
        EXCEPT !.measurement_noise = R]

\* gating_distance(mean, covariance, measurements, only_position): the
\* distances and the measurement noise project leaves behind.
gating_distance(R, res, mean, covariance, measurements, only_position) ==
    GatingWithProjection(measurements, GatingDims(only_position),
                         project(R, res, mean, covariance, 0))

-----------------------------------------------------------------------------
(* Bounds and inputs *)

\* The filter instances: the first is the one Spec exercises with every call
\* order; SpecTracker runs both, one per tracked object.
Filters == {1, 2}

\* Calls made in one behaviour of Spec, of SpecTracker and of SpecSequence.
MaxCalls == 4
MaxTrackerCalls == 3
MaxSequenceCalls == 8

\* A measurement (x, y, a, h) given in whole units.
Meas(z) == Vec([i \in 1..4 |-> z[i] * One])

\* Measurements a track is initiated from; the second has height 0, which
\* initiate does not reject.
InitMeasurements == { Meas(<<50, 50, 1, 20>>), Meas(<<50, 50, 1, 0>>) }

\* (measurement, confidence) pairs passed to update.
UpdateInputs == { <<Meas(<<53, 48, 1, 22>>), 0>>,
                  <<Meas(<<50, 50, 1, 20>>), One>> }

\* The batch passed to gating_distance: the first two agree in x and y.
GatingBatch == << Meas(<<50, 50, 1, 20>>), Meas(<<50, 50, 2, 30>>),
                  Meas(<<56, 50, 1, 20>>) >>

\* Image extents the host may set (width, height).
ImageSizes == { <<100 * One, 100 * One>> }

\* Values the host assigns through the noise property setters.
NoiseValues(n) == { Eye(n, n) }

-----------------------------------------------------------------------------
(* State *)

VARIABLES
    process_noise,       \* [Filters -> 8x8]  self._process_noise
    measurement_noise,   \* [Filters -> 4x4]  self._measurement_noise
    residual,            \* [Filters -> 4]    self._residual
    image_width,         \* [Filters -> real] self.image_width
    image_height,        \* [Filters -> real] self.image_height
    mean,                \* [Filters -> 8]    the caller's current track mean
    covariance,          \* [Filters -> 8x8]  the caller's current covariance
    track,               \* [Filters -> Nat]  which track the pair belongs to, 0: none
    origin,              \* [Filters -> 4]    the measurement that track began with
    ret,                 \* the last call and what it returned
    prior,               \* the state that call was made in
    calls,               \* calls made so far
    limit                \* calls the host makes in this behaviour

vars == << process_noise, measurement_noise, residual, image_width,
           image_height, mean, covariance, track, origin, ret, prior, calls,
           limit >>

noise == << process_noise, measurement_noise, residual >>
extent == << image_width, image_height >>
held == << mean, covariance, track, origin >>

Call(op, k, args, outcome, value) ==
    [op |-> op, self |-> k, args |-> args, outcome |-> outcome,
     value |-> value]

\* The instances, the caller's pairs and the last call, as they are now.
Snapshot ==
    [process_noise |-> process_noise, measurement_noise |-> measurement_noise,
     residual |-> residual, image_width |-> image_width,
     image_height |-> image_height, mean |-> mean, covariance |-> covariance,
     track |-> track, ret |-> ret]

\* Every instance as __init__ leaves it; no track yet.
Constructed ==
    /\ process_noise = [k \in Filters |-> InitProcessNoise]
    /\ measurement_noise = [k \in Filters |-> InitMeasurementNoise]
    /\ residual = [k \in Filters |-> InitResidual]
    /\ image_width = [k \in Filters |-> InitImageSize]
    /\ image_height = [k \in Filters |-> InitImageSize]
    /\ mean = [k \in Filters |-> << >>]
    /\ covariance = [k \in Filters |-> << >>]
    /\ track = [k \in Filters |-> 0]
    /\ origin = [k \in Filters |-> << >>]
    /\ ret = Call("init", 0, << >>, "ok", << >>)
    /\ prior = Snapshot
    /\ calls = 0

Init == Constructed /\ limit = MaxCalls

InitTracker == Constructed /\ limit = MaxTrackerCalls

\* The host has calls left to make; one more call is made.
MayCall == calls < limit
Called == calls' = calls + 1 /\ limit' = limit /\ prior' = Snapshot

\* The caller keeps the pair initiate returned as the track's state.
InitiateReturns(k, z, r) ==
    /\ mean' = [mean EXCEPT ![k] = r.mean]
    /\ covariance' = [covariance EXCEPT ![k] = r.covariance]
    /\ track' = [track EXCEPT ![k] = calls + 1]
    /\ origin' = [origin EXCEPT ![k] = z]
    /\ ret' = Call("initiate", k, z, "ok", << >>)
    /\ Called
    /\ UNCHANGED << noise, extent >>

Initiate(k, z) ==
    /\ MayCall
    /\ InitiateReturns(k, z, initiate(image_width[k], image_height[k], z))

\* Faulty variant: predict also stores the inflated covariance as Q.
PredictStoresQ(k, r) ==
    /\ mean' = [mean EXCEPT ![k] = r.mean]
    /\ covariance' = [covariance EXCEPT ![k] = r.covariance]
    /\ process_noise' = [process_noise EXCEPT ![k] = r.covariance]
    /\ ret' = Call("predict", k, << >>, "ok", << >>)
    /\ Called
    /\ UNCHANGED << measurement_noise, residual, extent, track, origin >>

PredictReturns(k, r) ==
    /\ mean' = [mean EXCEPT ![k] = r.mean]
    /\ covariance' = [covariance EXCEPT ![k] = r.covariance]
    /\ ret' = Call("predict", k, << >>, "ok", << >>)
    /\ Called
    /\ UNCHANGED << noise, extent, track, origin >>

Predict(k) ==
    /\ MayCall
    /\ track[k] # 0
    /\ PredictReturns(k, predict(process_noise[k], mean[k], covariance[k]))

\* Faulty variant: the noise state is a class attribute, so update's
\* assignments reach every instance.
UpdateWritesShared(k, args, r) ==
    /\ process_noise' = [j \in Filters |-> r.process_noise]
    /\ measurement_noise' = [j \in Filters |-> r.measurement_noise]
    /\ residual' = [j \in Filters |-> r.residual]
    /\ mean' = IF r.ok THEN [mean EXCEPT ![k] = r.mean] ELSE mean
    /\ covariance' = IF r.ok THEN [covariance EXCEPT ![k] = r.covariance]
                     ELSE covariance
    /\ ret' = Call("update", k, args, IF r.ok THEN "ok" ELSE "LinAlgError",
                   << >>)
    /\ Called
    /\ UNCHANGED << extent, track, origin >>

\* The instance keeps what update assigned; the caller keeps the returned
\* pair, or its old pair when update raised.
UpdateReturnsTo(k, args, r) ==
    /\ process_noise' = [process_noise EXCEPT ![k] = r.process_noise]
    /\ measurement_noise' = [measurement_noise EXCEPT ![k] = r.measurement_noise]
    /\ residual' = [residual EXCEPT ![k] = r.residual]
    /\ mean' = IF r.ok THEN [mean EXCEPT ![k] = r.mean] ELSE mean
    /\ covariance' = IF r.ok THEN [covariance EXCEPT ![k] = r.covariance]
                     ELSE covariance
    /\ ret' = Call("update", k, args, IF r.ok THEN "ok" ELSE "LinAlgError",
                   << >>)
    /\ Called
    /\ UNCHANGED << extent, track, origin >>

Update(k, z, confidence) ==
    /\ MayCall
    /\ track[k] # 0
    /\ UpdateReturnsTo(k, << z, confidence >>,
                       update(image_width[k], image_height[k],
                              process_noise[k], measurement_noise[k],
                              residual[k], mean[k], covariance[k],
                              z, confidence))

GatingReturns(k, only_position, r) ==
    /\ measurement_noise' = [measurement_noise EXCEPT ![k] = r.measurement_noise]
    /\ ret' = Call("gating_distance", k, only_position,
                   IF r.ok THEN "ok" ELSE "LinAlgError", r.distances)
    /\ Called
    /\ UNCHANGED << process_noise, residual, extent, held >>

GatingDistance(k, only_position) ==
    /\ MayCall
    /\ track[k] # 0
    /\ GatingReturns(k, only_position,
                     gating_distance(measurement_noise[k], residual[k],
                                     mean[k], covariance[k], GatingBatch,
                                     only_position))

\* process_noise.setter
SetProcessNoise(k, val) ==
    /\ MayCall
    /\ process_noise' = [process_noise EXCEPT ![k] = val]
    /\ ret' = Call("set_process_noise", k, val, "ok", << >>)
    /\ Called
    /\ UNCHANGED << measurement_noise, residual, extent, held >>

\* measurement_noise.setter
SetMeasurementNoise(k, val) ==
    /\ MayCall
    /\ measurement_noise' = [measurement_noise EXCEPT ![k] = val]
    /\ ret' = Call("set_measurement_noise", k, val, "ok", << >>)
    /\ Called
    /\ UNCHANGED << process_noise, residual, extent, held >>

\* The host assigns image_width and image_height.
SetImageSize(k, size) ==
    /\ MayCall
    /\ image_width' = [image_width EXCEPT ![k] = size[1]]
    /\ image_height' = [image_height EXCEPT ![k] = size[2]]
    /\ ret' = Call("set_image_size", k, size, "ok", << >>)
    /\ Called
    /\ UNCHANGED << noise, held >>

\* A call on instance k other than initiate.
CallOn(k) ==
    \/ Predict(k)
    \/ \E u \in UpdateInputs : Update(k, u[1], u[2])
    \/ \E only_position \in BOOLEAN : GatingDistance(k, only_position)
    \/ \E val \in NoiseValues(8) : SetProcessNoise(k, val)
    \/ \E val \in NoiseValues(4) : SetMeasurementNoise(k, val)
    \/ \E size \in ImageSizes : SetImageSize(k, size)

\* One instance, called in any order.
Next ==
    \/ \E z \in InitMeasurements : Initiate(1, z)
    \/ CallOn(1)

Spec == Init /\ [][Next]_vars

\* The track lifecycle of the host (the tracker that owns the filters): one
\* filter instance per tracked object, initiate called once, when the track
\* is created.
OneTrackPerInstance(k) == track[k] = 0

NewTrack(k, z) == OneTrackPerInstance(k) /\ Initiate(k, z)

\* Two instances under the host's track lifecycle.
NextTracker ==
    \E k \in Filters :
        \/ \E z \in InitMeasurements : NewTrack(k, z)
        \/ CallOn(k)

SpecTracker == InitTracker /\ [][NextTracker]_vars

\* One track, initiated from a measurement with positive aspect ratio and
\* height, then predict and update in any order.
StartTrack(k, z) == track[k] = 0 /\ z[3] > 0 /\ z[4] > 0 /\ Initiate(k, z)

InitSequence == Constructed /\ limit = MaxSequenceCalls

NextSequence ==
    \/ \E z \in InitMeasurements : StartTrack(1, z)
    \/ Predict(1)
    \/ \E u \in UpdateInputs : Update(1, u[1], u[2])

SpecSequence == InitSequence /\ [][NextSequence]_vars

-----------------------------------------------------------------------------
(* Properties *)

\* A measurement initiate's contract admits: positive aspect ratio and height.
Valid(z) == z[3] > 0 /\ z[4] > 0

\* The last call was op on instance k; it returned normally; it raised.
Last(k, op) == ret.op = op /\ ret.self = k
Returned(k, op) == Last(k, op) /\ ret.outcome = "ok"
Raised(k, op) == Last(k, op) /\ ret.outcome = "LinAlgError"

\* The noise state of instance k is what it was before the last call.
SameQ(k) == process_noise[k] = prior.process_noise[k]
SameR(k) == measurement_noise[k] = prior.measurement_noise[k]
SameResidual(k) == residual[k] = prior.residual[k]

\* The rounding tolerance of symmetry and definiteness: 2^-8.
Tolerance == One \div 256

Symmetric(P) ==
    \A i \in 1..Len(P) : \A j \in 1..Len(P) :
        Abs(P[i][j] - P[j][i]) <= Tolerance

\* P + Tolerance * I is positive definite: no eigenvalue of P lies below
\* -Tolerance.
PositiveSemiDefinite(P) ==
    CholFactor(MatAdd(P, Diag([i \in 1..Len(P) |-> Tolerance]))).ok

\* C1: on a track initiated from a valid measurement, the covariance every
\* predict and every update returns is symmetric and positive semi-definite.
C1_CovarianceSymmetricPSD ==
    \A k \in Filters :
        (Returned(k, "predict") \/ Returned(k, "update")) /\ Valid(origin[k])
            => Symmetric(covariance[k]) /\ PositiveSemiDefinite(covariance[k])

\* C1 witness: a second update has returned on a valid track after a predict,
\* with adapted Q and a stored residual behind it.
C1_Witness ==
    /\ Returned(1, "update") /\ Valid(origin[1])
    /\ prior.ret.op = "predict"
    /\ prior.residual[1] # InitResidual
    /\ prior.process_noise[1] # InitProcessNoise
    /\ covariance[1][1][5] # 0

\* C2: predict and initiate leave Q, R and the residual of the instance as
\* they were; of the operations initiate, predict, gating_distance and update
\* only update writes Q, the one other write being the host's own assignment
\* through the process_noise property.
C2_PredictInitiateFrame ==
    \A k \in Filters :
        /\ Last(k, "predict") \/ Last(k, "initiate")
               => SameQ(k) /\ SameR(k) /\ SameResidual(k)
        /\ ~SameQ(k) => Last(k, "update") \/ Last(k, "set_process_noise")
        /\ Last(k, "gating_distance") => SameQ(k)

\* C2 witness: predict has run right after a second initiate on an instance
\* whose Q, R and residual an update had already adapted.
C2_Witness ==
    /\ Last(1, "predict")
    /\ prior.ret.op = "initiate"
    /\ track[1] > 1
    /\ process_noise[1] # InitProcessNoise
    /\ measurement_noise[1] # InitMeasurementNoise
    /\ residual[1] # InitResidual

\* One adaptation step of R, entry by entry:
\* f (R + baseline) + (1 - f) (res res^T + H P H^T), the baseline being the
\* square of (1 - confidence) * (k_pos h, k_pos h, 0.1, k_pos h) on the
\* diagonal, h the height component of the mean.
BaselineStd(h, confidence, i) ==
    FxMul(One - confidence,
          IF i = 3 THEN One \div 10 ELSE FxMul(One \div 20, h))

AdaptationEntry(R, res, P, h, confidence, i, j) ==
    FxMul((9 * One) \div 10,
          R[i][j] + (IF i = j THEN Square(BaselineStd(h, confidence, i)) ELSE 0))
    + FxMul(One - (9 * One) \div 10, FxMul(res[i], res[j]) + P[i][j])

AdaptedFrom(newR, R, res, P, h, confidence) ==
    \A i \in 1..4 : \A j \in 1..4 :
        newR[i][j] = AdaptationEntry(R, res, P, h, confidence, i, j)

\* R of instance k is one adaptation step away from what it was before the
\* last call, the step reading the residual held before that call.
AdaptedOnce(k, confidence) ==
    AdaptedFrom(measurement_noise[k], prior.measurement_noise[k],
                prior.residual[k], prior.covariance[k], prior.mean[k][4],
                confidence)

\* C3: every gating_distance call, failed ones included, leaves R exactly one
\* adaptation step with confidence 0 away from the R before the call, and
\* leaves Q and the residual as they were.
C3_GatingAdaptsROnce ==
    \A k \in Filters :
        Last(k, "gating_distance")
            => AdaptedOnce(k, 0) /\ SameQ(k) /\ SameResidual(k)

\* C3 witness: a second gating_distance in a row, after an update had stored
\* a residual, has moved R again.
C3_Witness ==
    /\ Returned(1, "gating_distance")
    /\ prior.ret.op = "gating_distance"
    /\ prior.residual[1] # InitResidual
    /\ ~SameR(1)

\* What the host may have assigned to Q and to R of a fresh instance.
FreshQ == {InitProcessNoise} \cup NoiseValues(2 * ndim)
FreshR == {InitMeasurementNoise} \cup NoiseValues(ndim)

ProjectedCovEntry(k, i, j) == prior.covariance[k][i][j] + measurement_noise[k][i][j]

\* Evidence that its leading n x n part is not positive definite: the
\* quadratic form is not positive at a unit vector.
NotPositiveDefinite(k, n) == \E i \in 1..n : ProjectedCovEntry(k, i, i) <= 0

FactorizedDims == IF ret.op = "update" THEN 4 ELSE IF ret.args THEN 2 ELSE 4

\* The caller got nothing back and the call went no further.
NothingReturned(k) ==
    /\ mean = prior.mean
    /\ covariance = prior.covariance
    /\ ret.value = << >>
    /\ SameQ(k) /\ SameResidual(k)

\* C5: when the projected covariance is not positive definite, update and
\* gating_distance end in LinAlgError; a call that ends so has returned no
\* pair and no distances and has not gone on.
C5_CholeskyFailurePropagates ==
    \A k \in Filters :
        Last(k, "update") \/ Last(k, "gating_distance")
            => /\ NotPositiveDefinite(k, FactorizedDims)
                      => ret.outcome = "LinAlgError"
               /\ ret.outcome = "LinAlgError" => NothingReturned(k)

\* C5 witness: update has raised right after gating_distance raised on the
\* same track.
C5_Witness ==
    /\ Raised(1, "update")
    /\ NotPositiveDefinite(1, 4)
    /\ prior.ret.op = "gating_distance"
    /\ prior.ret.outcome = "LinAlgError"

\* The scenario: predict called on what initiate([50, 50, 1, 20]) returned.
Scenario(k) ==
    /\ Last(k, "predict")
    /\ prior.ret.op = "initiate" /\ prior.ret.self = k
    /\ prior.ret.args = Meas(<<50, 50, 1, 20>>)

\* F P F^T entry by entry for the constant-velocity F with dt = 1.
PropagatedEntry(P, i, j) ==
    P[i][j]
    + (IF i <= 4 THEN P[i + 4][j] ELSE 0)
    + (IF j <= 4 THEN P[i][j + 4] ELSE 0)
    + (IF i <= 4 /\ j <= 4 THEN P[i + 4][j + 4] ELSE 0)

MeanKept(k) ==
    /\ mean[k] = prior.mean[k]
    /\ mean[k] = Meas(<<50, 50, 1, 20>>) \o ZeroVec(4)

\* C6 as stated: the predicted covariance is the initiated covariance + Q.
C6_InflatedByQOnly ==
    \A k \in Filters :
        Scenario(k)
            => /\ MeanKept(k)
               /\ covariance[k] = MatAdd(prior.covariance[k], process_noise[k])

\* C6 amended: in the scenario the mean is unchanged with zero velocities,
\* and the predicted covariance is F P F^T + Q: besides Q, every position
\* variance grows by the matching velocity variance and the
\* position-velocity covariances become the velocity variances.
C6_InitiateThenPredict ==
    \A k \in Filters :
        Scenario(k)
            => /\ MeanKept(k)
               /\ \A i \in 1..8 : \A j \in 1..8 :
                      covariance[k][i][j] =
                          PropagatedEntry(prior.covariance[k], i, j)
                          + process_noise[k][i][j]
               /\ \A i \in 1..4 :
                      /\ covariance[k][i][i] =
                             prior.covariance[k][i][i]
                             + prior.covariance[k][i + 4][i + 4]
                             + process_noise[k][i][i]
                      /\ covariance[k][i][i + 4] =
                             prior.covariance[k][i + 4][i + 4]
                             + process_noise[k][i][i + 4]

\* C6 witness: the scenario has run on an instance with a non-zero Q, and
\* the height's position-velocity covariance is no longer zero.
C6_Witness ==
    /\ Scenario(1)
    /\ process_noise[1] # InitProcessNoise
    /\ prior.covariance[1][4][8] = 0
    /\ covariance[1][4][8] > 0

\* Q after a completed update, entry by entry, for baseline standard
\* deviations std: f (Q + diag(std^2)) + (1 - f) K y y^T K^T.
BlendedEntry(Q, std, est, i, j) ==
    FxMul((9 * One) \div 10,
          Q[i][j] + (IF i = j THEN Square(std[i]) ELSE 0))
    + FxMul(One - (9 * One) \div 10, est[i][j])

Blended(newQ, Q, std, est) ==
    \A i \in 1..8 : \A j \in 1..8 :
        newQ[i][j] = BlendedEntry(Q, std, est, i, j)

\* K y y^T K^T of the last update, from the state it was called in.
EstWithProjection(P, measurement, p) ==
    EstProcessNoise(KalmanGain(CholFactor(p.covariance), P),
                    VecSub(measurement, p.mean))

EstOfLastUpdate(k) ==
    EstWithProjection(prior.covariance[k], ret.args[1],
        project(prior.measurement_noise[k], prior.residual[k],
                prior.mean[k], prior.covariance[k], ret.args[2]))

\* dist of the pre-update mean.
PriorDist(k) ==
    distance_to_image_center(prior.image_width[k], prior.image_height[k],
                             prior.mean[k])

\* The baseline without initiate's factors 2 and 10.
UnscaledStd(dist, a, h) ==
    << FxMul(One \div 20, dist), FxMul(One \div 20, dist), a,
       FxMul(One \div 20, h),
       FxMul(One \div 160, dist), FxMul(One \div 160, dist),
       FxMul(One \div 10, a), FxMul(One \div 160, h) >>

BlendedWith(k, std) ==
    Blended(process_noise[k], prior.process_noise[k], std, EstOfLastUpdate(k))

\* C7 as stated: the baseline update blends into Q has initiate's standard
\* deviations, taken at dist, a and h of the pre-update mean.
C7_MirrorsInitiate ==
    \A k \in Filters :
        Returned(k, "update")
            => BlendedWith(k, InitiateStd(PriorDist(k), prior.mean[k]))

\* C7 amended: the baseline update blends into Q has the standard deviations
\* k_pos dist, k_pos dist, a, k_pos h, k_vel dist, k_vel dist, 0.1 a, k_vel h
\* of the pre-update mean: initiate's without the factors 2 and 10.
C7_BaselineUnscaled ==
    \A k \in Filters :
        Returned(k, "update")
            => BlendedWith(k, UnscaledStd(PriorDist(k), prior.mean[k][3],
                                          prior.mean[k][4]))

\* C7 witness: an update has completed at a non-zero distance from the image
\* center on a track of non-zero height, after Q had been adapted before.
C7_Witness ==
    /\ Returned(1, "update")
    /\ PriorDist(1) > 0 /\ prior.mean[1][4] > 0
    /\ prior.process_noise[1] # InitProcessNoise
    /\ ~SameQ(1)

\* C8: with only_position, two measurements of the batch with equal x and y
\* get equal distances.
C8_OnlyPositionIgnoresShape ==
    \A k \in Filters :
        Returned(k, "gating_distance") /\ ret.args
            => \A m \in 1..Len(GatingBatch) : \A n \in 1..Len(GatingBatch) :
                   GatingBatch[m][1] = GatingBatch[n][1]
                   /\ GatingBatch[m][2] = GatingBatch[n][2]
                       => ret.value[m] = ret.value[n]

\* C8 witness: an only_position call has returned a non-zero distance for
\* the two measurements that differ in aspect ratio and height only, and
\* another one for the third.
C8_Witness ==
    /\ Returned(1, "gating_distance") /\ ret.args
    /\ GatingBatch[1] # GatingBatch[2]
    /\ ret.value[1] > 0
    /\ ret.value[1] = ret.value[2]
    /\ ret.value[3] # ret.value[1]

\* C9: a completed update leaves measurement - H new_mean as the residual;
\* the R adaptation of update and of gating_distance reads the residual held
\* before the call; nothing but a completed update changes the residual,
\* which is zero on a new instance.
C9_ResidualCarryOver ==
    \A k \in Filters :
        /\ calls = 0 => residual[k] = InitResidual
        /\ Returned(k, "update")
               => \A i \in 1..4 : residual[k][i] = ret.args[1][i] - mean[k][i]
        /\ Last(k, "update") => AdaptedOnce(k, ret.args[2])
        /\ Last(k, "gating_distance") => AdaptedOnce(k, 0)
        /\ ~Returned(k, "update") => SameResidual(k)

\* C9 witness: a second update has completed; its R adaptation had a
\* non-zero residual from the first to read, and it has stored another.
C9_Witness ==
    /\ Returned(1, "update")
    /\ prior.residual[1] # InitResidual
    /\ ~SameResidual(1)
    /\ residual[1] # InitResidual

\* C10: an update that fails in the factorization leaves Q and the residual
\* as they were before the call and R one adaptation step further.
C10_FailedUpdateAdvancesR ==
    \A k \in Filters :
        Raised(k, "update")
            => SameQ(k) /\ SameResidual(k) /\ AdaptedOnce(k, ret.args[2])

\* C10 witness: an update has failed on an instance with a non-zero Q, and R
\* is no longer what it was before the call.
C10_Witness ==
    /\ Raised(1, "update")
    /\ process_noise[1] # InitProcessNoise
    /\ ~SameR(1)

=============================================================================
